---------------------------- MODULE Spec2Model ----------------------------
(***************************************************************************)
(* A model of the two containers of the crate dt:                          *)
(*                                                                         *)
(*   DoublyLinkedList  src/src/containers/doubly_linked_list.rs            *)
(*   LinkedHashMap     src/src/containers/linked_hash_map.rs               *)
(*                                                                         *)
(* The list is modelled over an explicit heap of nodes.  An address names   *)
(* one allocation: Box::new takes the next unused address, Box::from_raw   *)
(* ends the allocation, and an ended allocation's address is never handed  *)
(* out again, so a raw pointer kept to it is recognisably dangling (Rust's *)
(* rule: a pointer into a freed allocation is invalid whatever the         *)
(* allocator does with the memory).  Dereferencing such a pointer is       *)
(* undefined behaviour: the model records it as fault = "ub" and gives the *)
(* call the result Undef, which stands for every outcome a build can       *)
(* produce; nothing is modelled past that point.                           *)
(*                                                                         *)
(* The variables model, last, ret and hist are history variables: the      *)
(* abstract sequence the calls build, the last call, what it returned, and *)
(* for each list its calls since new(), kept for as long as they are       *)
(* pushes at one end followed by pops at one end.  dropped holds the lists *)
(* that went out of scope.                                                 *)
(***************************************************************************)
EXTENDS Integers, Sequences, FiniteSets, TLC

\* Bounds of the model.
MaxNodes == 3
MaxData == 2
MaxKey == 2
MaxVal == 2
MaxHash == 3
MaxBucketCount == 8
MaxEntryCount == 8

VARIABLES heap, ll, fault, model, last, ret, hist, dropped,
          buckets, entries_count, build_hasher, panicked, mmodel, mlast, mret,
          test_n, test_e, test_grows

listVars == <<heap, ll, fault, model, last, ret, hist, dropped>>
mapVars == <<buckets, entries_count, build_hasher, panicked, mmodel, mlast, mret>>
testVars == <<test_n, test_e, test_grows>>
vars == <<heap, ll, fault, model, last, ret, hist, dropped,
          buckets, entries_count, build_hasher, panicked, mmodel, mlast, mret,
          test_n, test_e, test_grows>>

\* Option<T>
None == <<"None">>
Some(x) == <<"Some", x>>
\* The result of a call whose behaviour is undefined.
Undef == <<"Undef">>
\* The result of a call that returns nothing.
Unit == <<"Unit">>
\* The result of a call that panicked, and of one that returned x.
Panic == <<"Panic">>
Ok(x) == <<"Ok", x>>
\* The result of a call that returns a bool.
Bool(b) == <<"Bool", b>>

(***************************************************************************)
(*                          DoublyLinkedList                               *)
(***************************************************************************)
NULL == 0
Addr == 1..MaxNodes
Data == 1..MaxData
Lists == {"l1", "l2"}

\* An address not handed out yet, and one whose node was given back.
Unused == [prev |-> NULL, next |-> NULL, data |-> 0, st |-> "unused"]
Freed == [prev |-> NULL, next |-> NULL, data |-> 0, st |-> "freed"]

Node_new(data) == [prev |-> NULL, next |-> NULL, data |-> data, st |-> "live"]

\* Box::new: the addresses the allocator can hand out next.
Box_new == {a \in Addr : heap[a].st = "unused" /\ \A b \in 1..(a - 1) : heap[b].st # "unused"}

DoublyLinkedList_new == [head |-> NULL, tail |-> NULL, len |-> 0]

\* Whether *p may be read or written: p points to an allocated node.
Valid(p) == p \in Addr /\ heap[p].st = "live"

len(l) == ll[l].len

is_empty(l) == ll[l].len = 0

front(l) ==
    IF ll[l].head # NULL
    THEN IF Valid(ll[l].head) THEN Some(heap[ll[l].head].data) ELSE Undef
    ELSE None

front_mut(l) ==
    IF ll[l].head # NULL
    THEN IF Valid(ll[l].head) THEN Some(heap[ll[l].head].data) ELSE Undef
    ELSE None

back(l) ==
    IF ll[l].tail # NULL
    THEN IF Valid(ll[l].tail) THEN Some(heap[ll[l].tail].data) ELSE Undef
    ELSE None

back_mut(l) ==
    IF ll[l].tail # NULL
    THEN IF Valid(ll[l].tail) THEN Some(heap[ll[l].tail].data) ELSE Undef
    ELSE None

\* Iter::next from p until it returns None, at most n times: the items
\* yielded.  A step through a dangling pointer yields Undef and ends the walk;
\* a walk cut at n items had not ended.
RECURSIVE Iter_next(_, _)
Iter_next(p, n) ==
    IF p = NULL \/ n = 0 THEN <<>>
    ELSE IF ~Valid(p) THEN <<Undef>>
    ELSE <<heap[p].data>> \o Iter_next(heap[p].next, n - 1)

iter(l) == Iter_next(ll[l].head, MaxNodes + 1)

\* IterMut::next from p until it returns None, at most n times.
RECURSIVE IterMut_next(_, _)
IterMut_next(p, n) ==
    IF p = NULL \/ n = 0 THEN <<>>
    ELSE IF ~Valid(p) THEN <<Undef>>
    ELSE <<heap[p].data>> \o IterMut_next(heap[p].next, n - 1)

iter_mut(l) == IterMut_next(ll[l].head, MaxNodes + 1)

\* The result of a call that never returns.
Diverges == <<"Diverges">>

\* The loop of contains from p, with n nodes still unvisited: a walk that
\* has visited every address and goes on is in a cycle and, not finding
\* data there, never ends.
RECURSIVE contains_from(_, _, _)
contains_from(p, data, n) ==
    IF p = NULL THEN Bool(FALSE)
    ELSE IF ~Valid(p) THEN Undef
    ELSE IF heap[p].data = data THEN Bool(TRUE)
    ELSE IF n = 0 THEN Diverges
    ELSE contains_from(heap[p].next, data, n - 1)

contains(l, data) == contains_from(ll[l].head, data, MaxNodes)

\* The calls on a list since new(), kept for as long as they are pushes at
\* one end followed by pops at one end: the end and the data of the pushes,
\* the end and the results of the pops.  One pop more than there were pushes
\* is kept, to see the list empty.  Any other call makes it Untracked.
Untracked ==
    [ok |-> FALSE, pushEnd |-> "none", pushes |-> <<>>,
     popEnd |-> "none", pops |-> <<>>]

NoCalls == [Untracked EXCEPT !.ok = TRUE]

Pushed(h, end, data) ==
    IF h.ok /\ h.pops = <<>> /\ (h.pushes = <<>> \/ h.pushEnd = end)
    THEN [h EXCEPT !.pushEnd = end, !.pushes = Append(@, data)]
    ELSE Untracked

Popped(h, end, result) ==
    IF /\ h.ok
       /\ Len(h.pops) <= Len(h.pushes)
       /\ (h.pops = <<>> \/ h.popEnd = end)
    THEN [h EXCEPT !.popEnd = end, !.pops = Append(@, result)]
    ELSE Untracked

\* The call's behaviour is undefined: the list is left as it was found.
Undefined ==
    /\ fault' = "ub"
    /\ ret' = Undef
    /\ UNCHANGED <<heap, ll>>

\* push_front that leaves the new node's next link unset.
push_front_next_unset(l, data) ==
    /\ fault = "none"
    /\ l \notin dropped
    /\ \E node \in Box_new :
           LET head == ll[l].head
               h1 == [heap EXCEPT ![node] = Node_new(data)]
           IN  IF head = NULL
               THEN /\ heap' = h1
                    /\ ll' = [ll EXCEPT ![l] = [head |-> node, tail |-> node,
                                                len |-> @.len + 1]]
                    /\ fault' = fault
                    /\ ret' = Unit
               ELSE IF Valid(head)
               THEN /\ heap' = [h1 EXCEPT ![head].prev = node]
                    /\ ll' = [ll EXCEPT ![l].head = node, ![l].len = @ + 1]
                    /\ fault' = fault
                    /\ ret' = Unit
               ELSE Undefined
    /\ model' = [model EXCEPT ![l] = <<data>> \o @]
    /\ last' = [op |-> "push_front", l |-> l]
    /\ hist' = [hist EXCEPT ![l] = Pushed(@, "front", data)]
    /\ UNCHANGED <<dropped, mapVars, testVars>>

\* push_back that leaves the old tail's next link unset.
push_back_next_unset(l, data) ==
    /\ fault = "none"
    /\ l \notin dropped
    /\ \E node \in Box_new :
           LET tail == ll[l].tail
               h1 == [heap EXCEPT ![node] = [Node_new(data) EXCEPT !.prev = tail]]
           IN  IF tail = NULL
               THEN /\ heap' = h1
                    /\ ll' = [ll EXCEPT ![l] = [head |-> node, tail |-> node,
                                                len |-> @.len + 1]]
                    /\ fault' = fault
                    /\ ret' = Unit
               ELSE IF Valid(tail)
               THEN /\ heap' = h1
                    /\ ll' = [ll EXCEPT ![l].tail = node, ![l].len = @ + 1]
                    /\ fault' = fault
                    /\ ret' = Unit
               ELSE Undefined
    /\ model' = [model EXCEPT ![l] = Append(@, data)]
    /\ last' = [op |-> "push_back", l |-> l]
    /\ hist' = [hist EXCEPT ![l] = Pushed(@, "back", data)]
    /\ UNCHANGED <<dropped, mapVars, testVars>>

push_front(l, data) ==
    /\ fault = "none"
    /\ l \notin dropped
    /\ \E node \in Box_new :
           LET head == ll[l].head
               h1 == [heap EXCEPT ![node] = [Node_new(data) EXCEPT !.next = head]]
           IN  IF head = NULL
               THEN /\ heap' = h1
                    /\ ll' = [ll EXCEPT ![l] = [head |-> node, tail |-> node,
                                                len |-> @.len + 1]]
                    /\ fault' = fault
                    /\ ret' = Unit
               ELSE IF Valid(head)
               THEN /\ heap' = [h1 EXCEPT ![head].prev = node]
                    /\ ll' = [ll EXCEPT ![l].head = node, ![l].len = @ + 1]
                    /\ fault' = fault
                    /\ ret' = Unit
               ELSE Undefined
    /\ model' = [model EXCEPT ![l] = <<data>> \o @]
    /\ last' = [op |-> "push_front", l |-> l]
    /\ hist' = [hist EXCEPT ![l] = Pushed(@, "front", data)]
    /\ UNCHANGED <<dropped, mapVars, testVars>>

push_back(l, data) ==
    /\ fault = "none"
    /\ l \notin dropped
    /\ \E node \in Box_new :
           LET tail == ll[l].tail
               h1 == [heap EXCEPT ![node] = [Node_new(data) EXCEPT !.prev = tail]]
           IN  IF tail = NULL
               THEN /\ heap' = h1
                    /\ ll' = [ll EXCEPT ![l] = [head |-> node, tail |-> node,
                                                len |-> @.len + 1]]
                    /\ fault' = fault
                    /\ ret' = Unit
               ELSE IF Valid(tail)
               THEN /\ heap' = [h1 EXCEPT ![tail].next = node]
                    /\ ll' = [ll EXCEPT ![l].tail = node, ![l].len = @ + 1]
                    /\ fault' = fault
                    /\ ret' = Unit
               ELSE Undefined
    /\ model' = [model EXCEPT ![l] = Append(@, data)]
    /\ last' = [op |-> "push_back", l |-> l]
    /\ hist' = [hist EXCEPT ![l] = Pushed(@, "back", data)]
    /\ UNCHANGED <<dropped, mapVars, testVars>>

\* self.len -= 1 on a usize: at 0 a build with overflow checks panics and a
\* build without them wraps to usize::MAX, which is written -1 here (len is
\* kept modulo 2^64 by its representative nearest 0).
pop_front(l) ==
    /\ fault = "none"
    /\ l \notin dropped
    /\ LET head == ll[l].head
       IN  IF head = NULL
           THEN /\ ret' = None
                /\ UNCHANGED <<heap, ll, fault>>
           ELSE IF ~Valid(head)
           THEN Undefined
           ELSE LET next == heap[head].next
                IN  IF next # NULL /\ ~Valid(next)
                    THEN Undefined
                    ELSE LET h1 == IF next # NULL
                                   THEN [heap EXCEPT ![next].prev = NULL]
                                   ELSE heap
                         IN  \/ /\ ll[l].len = 0
                                /\ heap' = h1
                                /\ ll' = [ll EXCEPT ![l].head = next]
                                /\ fault' = "panic"
                                /\ ret' = Panic
                             \/ /\ heap' = [h1 EXCEPT ![head] = Freed]
                                /\ ll' = [ll EXCEPT ![l].head = next,
                                                    ![l].len = @ - 1]
                                /\ fault' = fault
                                /\ ret' = Some(h1[head].data)
    /\ model' = [model EXCEPT ![l] = IF @ = <<>> THEN @ ELSE Tail(@)]
    /\ last' = [op |-> "pop_front", l |-> l]
    /\ hist' = [hist EXCEPT ![l] = Popped(@, "front", ret')]
    /\ UNCHANGED <<dropped, mapVars, testVars>>

pop_back(l) ==
    /\ fault = "none"
    /\ l \notin dropped
    /\ LET tail == ll[l].tail
       IN  IF tail = NULL
           THEN /\ ret' = None
                /\ UNCHANGED <<heap, ll, fault>>
           ELSE IF ~Valid(tail)
           THEN Undefined
           ELSE LET prev == heap[tail].prev
                IN  IF prev # NULL /\ ~Valid(prev)
                    THEN Undefined
                    ELSE LET h1 == IF prev # NULL
                                   THEN [heap EXCEPT ![prev].next = NULL]
                                   ELSE heap
                         IN  \/ /\ ll[l].len = 0
                                /\ heap' = h1
                                /\ ll' = [ll EXCEPT ![l].tail = prev]
                                /\ fault' = "panic"
                                /\ ret' = Panic
                             \/ /\ heap' = [h1 EXCEPT ![tail] = Freed]
                                /\ ll' = [ll EXCEPT ![l].tail = prev,
                                                    ![l].len = @ - 1]
                                /\ fault' = fault
                                /\ ret' = Some(h1[tail].data)
    /\ model' = [model EXCEPT ![l] = IF @ = <<>> THEN @
                                      ELSE SubSeq(@, 1, Len(@) - 1)]
    /\ last' = [op |-> "pop_back", l |-> l]
    /\ hist' = [hist EXCEPT ![l] = Popped(@, "back", ret')]
    /\ UNCHANGED <<dropped, mapVars, testVars>>

append(self, other) ==
    /\ fault = "none"
    /\ self # other
    /\ self \notin dropped /\ other \notin dropped
    /\ LET tail == ll[self].tail
           head == ll[other].head
           sum == [ll EXCEPT ![self].len = @ + ll[other].len, ![other].len = 0]
       IN  IF tail # NULL
           THEN IF ~Valid(tail)
                THEN Undefined
                ELSE LET h1 == [heap EXCEPT ![tail].next = head]
                     IN  IF head # NULL /\ ~Valid(head)
                         THEN Undefined
                         ELSE /\ heap' = IF head # NULL
                                         THEN [h1 EXCEPT ![head].prev = tail]
                                         ELSE h1
                              /\ ll' = [sum EXCEPT ![other].head = NULL,
                                                   ![other].tail = NULL]
                              /\ fault' = fault
                              /\ ret' = Unit
           ELSE /\ heap' = heap
                /\ ll' = [sum EXCEPT ![self].head = head, ![self].tail = head]
                /\ fault' = fault
                /\ ret' = Unit
    /\ model' = [model EXCEPT ![self] = @ \o model[other], ![other] = <<>>]
    /\ last' = [op |-> "append", l |-> self]
    /\ hist' = [hist EXCEPT ![self] = Untracked, ![other] = Untracked]
    /\ UNCHANGED <<dropped, mapVars, testVars>>

\* clear is todo!(): it panics.
clear(l) ==
    /\ fault = "none"
    /\ l \notin dropped
    /\ fault' = "panic"
    /\ ret' = Panic
    /\ model' = [model EXCEPT ![l] = <<>>]
    /\ last' = [op |-> "clear", l |-> l]
    /\ hist' = [hist EXCEPT ![l] = Untracked]
    /\ UNCHANGED <<heap, ll, dropped, mapVars, testVars>>

\* split_off is todo!(): it panics, whatever at is.
split_off(l, at) ==
    /\ fault = "none"
    /\ l \notin dropped
    /\ fault' = "panic"
    /\ ret' = Panic
    /\ model' = [model EXCEPT ![l] = IF at <= Len(@) THEN SubSeq(@, 1, at) ELSE @]
    /\ last' = [op |-> "split_off", l |-> l, at |-> at]
    /\ hist' = [hist EXCEPT ![l] = Untracked]
    /\ UNCHANGED <<heap, ll, dropped, mapVars, testVars>>

\* The list goes out of scope.  DoublyLinkedList has no Drop impl and its
\* fields are raw pointers, a usize and a PhantomData: nothing is released.
drop(l) ==
    /\ fault = "none"
    /\ l \notin dropped
    /\ dropped' = dropped \cup {l}
    /\ ret' = Unit
    /\ last' = [op |-> "drop", l |-> l]
    /\ UNCHANGED <<heap, ll, fault, model, hist, mapVars, testVars>>

(***************************************************************************)
(*                            LinkedHashMap                                *)
(*                                                                         *)
(* buckets is the Vec of buckets, each the Vec of its (key, value) items;  *)
(* Rust's index i is position i + 1 here.  build_hasher gives each key the *)
(* u64 its hasher finishes with: RandomState draws it once per map.  Keys   *)
(* are told apart only by ==, so every hasher is, up to renaming the keys, *)
(* one that is monotone in the key: Init draws among those.                *)
(* A panic ends the caller: panicked, and nothing is modelled past it.     *)
(* mmodel, mlast and mret are history variables: the binding the calls     *)
(* have built for each key, the last call (and whether it grew the bucket  *)
(* array), and what it returned.                                           *)
(***************************************************************************)
Keys == 1..MaxKey
Vals == 1..MaxVal

Bucket_default == <<>>

\* hasher.finish() % n_buckets: the remainder by zero panics.
key_to_idx(key, n_buckets) ==
    IF n_buckets = 0 THEN Panic ELSE Ok(build_hasher[key] % n_buckets)

index(key) == key_to_idx(key, Len(buckets))

\* position that never looks at the first item.
position_skips_first(items, key) ==
    IF \E i \in 2..Len(items) : items[i][1] = key
    THEN CHOOSE i \in 2..Len(items) :
            /\ items[i][1] = key
            /\ \A j \in 2..(i - 1) : items[j][1] # key
    ELSE 0

\* position that finds nothing.
position_finds_nothing(items, key) == 0

\* position(|(k, _)| k == key): the first place of key in the items, 0 for None.
position(items, key) ==
    IF \E i \in 1..Len(items) : items[i][1] = key
    THEN CHOOSE i \in 1..Len(items) :
            /\ items[i][1] = key
            /\ \A j \in 1..(i - 1) : items[j][1] # key
    ELSE 0

\* swap_remove that removes nothing.
swap_remove_keeps_all(items, i) == items

\* Vec::swap_remove(i): the last item takes the place of the removed one.
swap_remove(items, i) ==
    LET n == Len(items)
    IN  IF i = n THEN SubSeq(items, 1, n - 1)
        ELSE [SubSeq(items, 1, n - 1) EXCEPT ![i] = items[n]]

\* flat_map(|bucket| bucket.items.drain(..)): the items bucket after bucket.
RECURSIVE drain_all(_)
drain_all(bs) ==
    IF bs = <<>> THEN <<>> ELSE Head(bs) \o drain_all(Tail(bs))

\* A target size one more than the length.
target_size_one_more(bs) == Len(bs) + 1

target_size(bs) == IF Len(bs) = 0 THEN 1 ELSE 2 * Len(bs)

\* grow that leaves each item in the bucket it was in.
grow_without_rehash(bs) ==
    [i \in 1..target_size(bs) |-> IF i <= Len(bs) THEN bs[i] ELSE Bucket_default]

\* grow that puts every item in the first bucket.
grow_into_first_bucket(bs) ==
    [i \in 1..target_size(bs) |-> IF i = 1 THEN drain_all(bs) ELSE Bucket_default]

grow(bs) ==
    LET n == target_size(bs)
        GoesTo(i) == LET Here(e) == key_to_idx(e[1], n) = Ok(i - 1)
                     IN  SelectSeq(drain_all(bs), Here)
    IN  [i \in 1..n |-> Bucket_default \o GoesTo(i)]

\* A test for growing only once there are more entries than buckets.
must_grow_when_full(bs, count) == Len(bs) = 0 \/ count > Len(bs)

\* A test that also grows at exactly three quarters.
must_grow_from_three_quarters(bs, count) ==
    Len(bs) = 0 \/ count >= (3 * Len(bs)) \div 4

\* The test of insert for growing first.
must_grow(bs, count) == Len(bs) = 0 \/ count > (3 * Len(bs)) \div 4

insert(key, value) ==
    /\ ~panicked
    /\ LET b1 == IF must_grow(buckets, entries_count) THEN grow(buckets) ELSE buckets
           idx == key_to_idx(key, Len(b1))[2]
           at == position(b1[idx + 1], key)
       IN  IF at # 0
           THEN /\ buckets' = [b1 EXCEPT ![idx + 1][at] = <<key, value>>]
                /\ entries_count' = entries_count
                /\ mret' = Some(b1[idx + 1][at][2])
           ELSE /\ buckets' = [b1 EXCEPT ![idx + 1] = Append(@, <<key, value>>)]
                /\ entries_count' = entries_count + 1
                /\ mret' = None
    /\ panicked' = panicked
    /\ mmodel' = [mmodel EXCEPT ![key] = Some(value)]
    /\ mlast' = [op |-> "insert", key |-> key,
                 grew |-> must_grow(buckets, entries_count)]
    /\ UNCHANGED <<build_hasher, listVars, testVars>>

\* get on the bucket array bs.
lookup(bs, key) ==
    IF key_to_idx(key, Len(bs)) = Panic THEN Panic
    ELSE LET idx == key_to_idx(key, Len(bs))[2]
             at == position(bs[idx + 1], key)
         IN  IF at # 0 THEN Some(bs[idx + 1][at][2]) ELSE None

get(key) == lookup(buckets, key)

contains_key(key) ==
    IF index(key) = Panic THEN Panic
    ELSE Bool(position(buckets[index(key)[2] + 1], key) # 0)

remove(key) ==
    /\ ~panicked
    /\ IF index(key) = Panic
       THEN /\ panicked' = TRUE
            /\ mret' = Panic
            /\ UNCHANGED <<buckets, entries_count>>
       ELSE LET idx == index(key)[2]
                entry_idx == position(buckets[idx + 1], key)
            IN  /\ panicked' = panicked
                /\ IF entry_idx = 0
                   THEN /\ mret' = None
                        /\ UNCHANGED <<buckets, entries_count>>
                   ELSE /\ entries_count' = entries_count - 1
                        /\ buckets' = [buckets EXCEPT
                                         ![idx + 1] = swap_remove(@, entry_idx)]
                        /\ mret' = Some(buckets[idx + 1][entry_idx][2])
    /\ mmodel' = [mmodel EXCEPT ![key] = None]
    /\ mlast' = [op |-> "remove", key |-> key, grew |-> FALSE]
    /\ UNCHANGED <<build_hasher, listVars, testVars>>

\* The test of insert on an array of test_n buckets, empty or not, and an
\* entry counter of test_e.
growth_test ==
    /\ test_grows = Unit
    /\ test_grows' = Bool(must_grow([i \in 1..test_n |-> Bucket_default], test_e))
    /\ UNCHANGED <<test_n, test_e, listVars, mapVars>>

LinkedHashMap_len == entries_count

LinkedHashMap_is_empty == entries_count = 0

ListInit ==
    /\ heap = [a \in Addr |-> Unused]
    /\ ll = [l \in Lists |-> DoublyLinkedList_new]
    /\ fault = "none"
    /\ model = [l \in Lists |-> <<>>]
    /\ last = [op |-> "new", l |-> "l1"]
    /\ ret = Unit
    /\ hist = [l \in Lists |-> NoCalls]
    /\ dropped = {}

MapInit ==
    /\ buckets = <<>>
    /\ entries_count = 0
    /\ build_hasher \in [Keys -> 0..MaxHash]
    /\ \A j \in Keys, k \in Keys : j <= k => build_hasher[j] <= build_hasher[k]
    /\ panicked = FALSE
    /\ mmodel = [k \in Keys |-> None]
    /\ mlast = [op |-> "new", key |-> 1, grew |-> FALSE]
    /\ mret = Unit

\* No growth test is drawn.
NoTest == test_n = 1 /\ test_e = 0 /\ test_grows = Unit

\* The component a specification leaves alone stays as constructed.
InitList == ListInit /\ MapInit /\ build_hasher = [k \in Keys |-> 0] /\ NoTest

InitMap == ListInit /\ MapInit /\ NoTest

\* A new map with one hasher, and a bucket count and an entry count drawn
\* for the growth test.
InitGrowth ==
    /\ ListInit
    /\ MapInit
    /\ build_hasher = [k \in Keys |-> k - 1]
    /\ test_n \in 1..MaxBucketCount
    /\ test_e \in 0..MaxEntryCount
    /\ test_grows = Unit

NextPushPop ==
    \E l \in Lists :
        \/ \E data \in Data : push_front(l, data)
        \/ \E data \in Data : push_back(l, data)
        \/ pop_front(l)
        \/ pop_back(l)

NextList ==
    \/ NextPushPop
    \/ \E self \in Lists, other \in Lists : append(self, other)

NextMap ==
    \/ \E key \in Keys, value \in Vals : insert(key, value)
    \/ \E key \in Keys : remove(key)

SpecMap == InitMap /\ [][NextMap]_vars

NextGrowth ==
    \/ growth_test
    \/ NextMap

SpecGrowth == InitGrowth /\ [][NextGrowth]_vars

SpecPushPop == InitList /\ [][NextPushPop]_vars

SpecList == InitList /\ [][NextList]_vars

NextListAll ==
    \/ NextList
    \/ \E l \in Lists : clear(l)
    \/ \E l \in Lists, at \in 0..(MaxNodes + 1) : split_off(l, at)
    \/ \E l \in Lists : drop(l)

SpecListAll == InitList /\ [][NextListAll]_vars

(***************************************************************************)
(*                     Properties of DoublyLinkedList                      *)
(***************************************************************************)
\* The addresses met from p by following next, at most n of them.
RECURSIVE Chain(_, _)
Chain(p, n) ==
    IF p = NULL \/ n = 0 THEN <<>>
    ELSE IF ~Valid(p) THEN <<p>>
    ELSE <<p>> \o Chain(heap[p].next, n - 1)

\* The addresses reachable from l's head and tail over next and prev links.
RECURSIVE Closure(_)
Closure(S) ==
    LET T == (S \cup {heap[a].next : a \in S} \cup {heap[a].prev : a \in S}) \ {NULL}
    IN  IF T = S THEN S ELSE Closure(T)

Reach(l) == Closure({ll[l].head, ll[l].tail} \ {NULL})

\* l is the linked list of the abstract sequence model[l]: the state a list
\* holding that sequence is meant to be in.
Proper(l) ==
    LET c == Chain(ll[l].head, MaxNodes + 1)
        n == Len(c)
    IN  /\ n = Len(model[l])
        /\ \A i \in 1..n : Valid(c[i]) /\ heap[c[i]].data = model[l][i]
        /\ \A i \in 1..n : heap[c[i]].prev = IF i = 1 THEN NULL ELSE c[i - 1]
        /\ ll[l].tail = IF n = 0 THEN NULL ELSE c[n]
        /\ ll[l].len = n

First(q) == IF q = <<>> THEN None ELSE Some(q[1])
Last(q) == IF q = <<>> THEN None ELSE Some(q[Len(q)])

\* The step is the call op on list l.
Called(op, l) == last' = [op |-> op, l |-> l]

\* C1: every pop_front returns the first element and every pop_back the
\* last element of the abstract sequence the calls so far have built, and
\* None exactly when that sequence is empty.
C1_PopsFollowSequence ==
    [][\A l \in Lists :
        /\ Called("pop_front", l) => ret' = First(model[l])
        /\ Called("pop_back", l) => ret' = Last(model[l])]_vars

\* C5: after each push or pop the call has returned normally, len() is the
\* number of pushes minus the number of pops that removed an element (the
\* length of the abstract sequence, which grows by one at each push and
\* shrinks by one at each pop of a non-empty sequence), and is_empty() is
\* len() = 0.
C5_LenCountsPushesMinusPops ==
    /\ fault = "none"
    /\ \A l \in Lists :
        /\ len(l) = Len(model[l])
        /\ is_empty(l) <=> (len(l) = 0)

\* The step is self.append(other) on two proper lists that share no node.
AppendOfProper(self, other) ==
    /\ self # other
    /\ fault = "none"
    /\ Proper(self) /\ Proper(other)
    /\ Reach(self) \cap Reach(other) = {}
    /\ Called("append", self)

\* C3: after self.append(other), self holds its old elements followed by
\* the old elements of other: front(), back(), iter() and len() observe
\* that sequence.
C3_AppendIsPushBackOfAll ==
    [][\A self \in Lists, other \in Lists :
        AppendOfProper(self, other) =>
            LET q == model[self] \o model[other]
            IN  /\ fault' = "none"
                /\ front(self)' = First(q)
                /\ back(self)' = Last(q)
                /\ iter(self)' = q
                /\ len(self)' = Len(model[self]) + Len(model[other])]_vars

\* C9: after self.append(other), other is in the empty state (head absent,
\* tail absent, len 0, front() and back() None) and no node is reachable
\* from both lists.
C9_AppendEmptiesOther ==
    [][\A self \in Lists, other \in Lists :
        AppendOfProper(self, other) =>
            /\ ll'[other] = DoublyLinkedList_new
            /\ front(other)' = None
            /\ back(other)' = None
            /\ (Reach(self) \cap Reach(other))' = {}]_vars

\* C10: front(), back(), front_mut() and back_mut() are None exactly when
\* len() = 0 and otherwise are the first and the last element of the list.
C10_FrontBackAreTheEnds ==
    \A l \in Lists :
        /\ front(l) = First(model[l]) /\ front_mut(l) = First(model[l])
        /\ back(l) = Last(model[l]) /\ back_mut(l) = Last(model[l])
        /\ (front(l) = None) <=> (len(l) = 0)
        /\ (back(l) = None) <=> (len(l) = 0)

\* The walk from l's head over next links ends and meets allocated nodes
\* only: iterating l is defined and finite.
WalkDefined(l) ==
    LET c == Chain(ll[l].head, MaxNodes + 1)
    IN  Len(c) <= MaxNodes /\ \A i \in 1..Len(c) : Valid(c[i])

\* C11: in every state reached by push, pop and append calls, iter() and
\* iter_mut() started anew yield the elements of the list from front to
\* back, each once, and exactly len() of them.
C11_IterYieldsTheElements ==
    \A l \in Lists :
        /\ WalkDefined(l)
        /\ iter(l) = model[l]
        /\ iter_mut(l) = model[l]
        /\ Len(iter(l)) = len(l)
        /\ Len(iter_mut(l)) = len(l)

\* C18: in every state reached by push, pop and append calls, head is
\* absent exactly when tail is absent and exactly when len is 0.
C18_HeadTailLenAgree ==
    \A l \in Lists :
        /\ (ll[l].head = NULL) <=> (ll[l].tail = NULL)
        /\ (ll[l].head = NULL) <=> (ll[l].len = 0)

\* C19: in every state reached by push, pop and append calls, the head of a
\* non-empty list has no prev link, its tail has no next link, and the tail
\* is the last node of the chain from the head.
C19_EndsHaveNoOutwardLink ==
    \A l \in Lists :
        ll[l].len # 0 =>
            /\ Valid(ll[l].head) /\ heap[ll[l].head].prev = NULL
            /\ Valid(ll[l].tail) /\ heap[ll[l].tail].next = NULL
            /\ WalkDefined(l)
            /\ Last(Chain(ll[l].head, MaxNodes + 1)) = Some(ll[l].tail)

\* C20: in every state reached by push, pop and append calls, len is the
\* number of nodes reached from head over next links.
C20_LenCountsReachableNodes ==
    \A l \in Lists :
        ll[l].len = Len(Chain(ll[l].head, MaxNodes + 1))

\* C12: across push, pop and append calls followed by the teardown of the
\* list, no call touches a node that was already freed (no double free, no
\* read or write after free) and no node of a destroyed list is still
\* allocated.
C12_EveryNodeFreedOnce ==
    /\ fault # "ub"
    /\ \A l \in dropped : \A a \in Reach(l) : ~Valid(a)

\* The step is the call split_off(at) on list l.
SplitOffCalled(l, at) == last' = [op |-> "split_off", l |-> l, at |-> at]

\* C13: split_off(at) with 0 <= at <= len returns a list: self keeps the
\* elements before position at, the returned list holds those from at on,
\* both in the original order, and len() is at for self.
C13_SplitOffPartitions ==
    [][\A l \in Lists, at \in 0..(MaxNodes + 1) :
        SplitOffCalled(l, at) /\ at <= len(l) =>
            /\ fault' = "none"
            /\ ret' = <<"List", SubSeq(model[l], at + 1, Len(model[l]))>>
            /\ iter(l)' = SubSeq(model[l], 1, at)
            /\ len(l)' = at]_vars

\* C14: after split_off(at) with 0 <= at <= len, what self keeps followed by
\* what was returned is the content the list had, in the same order and of
\* the same length: appending the suffix back restores the list.
C14_SplitOffThenAppendRestores ==
    [][\A l \in Lists, at \in 0..(MaxNodes + 1) :
        SplitOffCalled(l, at) /\ at <= len(l) =>
            /\ fault' = "none"
            /\ ret'[1] = "List"
            /\ iter(l)' \o ret'[2] = iter(l)
            /\ len(l)' + Len(ret'[2]) = len(l)]_vars

\* C15: clear() returns normally on a list of any length and leaves it
\* empty: len() is 0, is_empty() holds, front() and back() are None and
\* none of its nodes is still allocated.
C15_ClearEmptiesTheList ==
    [][\A l \in Lists :
        Called("clear", l) =>
            /\ fault' = "none"
            /\ ret' = Unit
            /\ len(l)' = 0
            /\ is_empty(l)'
            /\ front(l)' = None
            /\ back(l)' = None
            /\ \A a \in Reach(l) : (~Valid(a))']_vars

\* The pops of the history h returned the values of expected, in that
\* order, and None once these were all returned.
PopsReturn(h, expected) ==
    \A i \in 1..Len(h.pops) :
        h.pops[i] = IF i <= Len(expected) THEN Some(expected[i]) ELSE None

Reverse(q) == [i \in 1..Len(q) |-> q[Len(q) + 1 - i]]

\* As many pops as pushes, or one more, leave the list empty.
EmptyOncePopped(l) ==
    Len(hist[l].pops) >= Len(hist[l].pushes) => len(l) = 0 /\ is_empty(l)

\* C16: on a new list, n push_front calls followed by pop_front calls return
\* the pushed values in reverse push order, the pop after the n-th returns
\* None, and the list then has len() 0 and is_empty(); the same for
\* push_back followed by pop_back.
C16_Lifo ==
    \A l \in Lists :
        LET h == hist[l]
        IN  h.ok /\ (h.pushes = <<>> \/ h.pops = <<>> \/ h.pushEnd = h.popEnd) =>
                /\ PopsReturn(h, Reverse(h.pushes))
                /\ EmptyOncePopped(l)

\* Two different values were pushed at the front of one list and popped
\* there, with one pop more; one value was pushed at the back of the other
\* list and popped there, with one pop more.
C16_Witness ==
    \E l \in Lists, m \in Lists :
        /\ hist[l].ok /\ hist[l].pushEnd = "front" /\ hist[l].popEnd = "front"
        /\ Len(hist[l].pushes) = 2 /\ hist[l].pushes[1] # hist[l].pushes[2]
        /\ Len(hist[l].pops) = 3
        /\ hist[m].ok /\ hist[m].pushEnd = "back" /\ hist[m].popEnd = "back"
        /\ Len(hist[m].pushes) = 1 /\ Len(hist[m].pops) = 2

\* C17: on a new list, n push_back calls followed by pop_front calls return
\* the pushed values in push order, the pop after the n-th returns None, and
\* the list then has len() 0 and is_empty(); the same for push_front
\* followed by pop_back.
C17_Fifo ==
    \A l \in Lists :
        LET h == hist[l]
        IN  h.ok /\ (h.pushes = <<>> \/ h.pops = <<>> \/ h.pushEnd # h.popEnd) =>
                /\ PopsReturn(h, h.pushes)
                /\ EmptyOncePopped(l)

\* Two different values were pushed at the back of one list and popped at
\* its front, with one pop more; one value was pushed at the front of the
\* other list and popped at its back, with one pop more.
C17_Witness ==
    \E l \in Lists, m \in Lists :
        /\ hist[l].ok /\ hist[l].pushEnd = "back" /\ hist[l].popEnd = "front"
        /\ Len(hist[l].pushes) = 2 /\ hist[l].pushes[1] # hist[l].pushes[2]
        /\ Len(hist[l].pops) = 3
        /\ hist[m].ok /\ hist[m].pushEnd = "front" /\ hist[m].popEnd = "back"
        /\ Len(hist[m].pushes) = 1 /\ Len(hist[m].pops) = 2

\* C26: in every state reached by push, pop and append calls, the same
\* list appended more than once included, the chain of next links from head
\* meets no node twice, so that iter(), iter_mut() and contains() end.
C26_TraversalTerminates ==
    \A l \in Lists :
        LET c == Chain(ll[l].head, MaxNodes + 1)
        IN  /\ \A i \in 1..Len(c), j \in 1..Len(c) : c[i] = c[j] => i = j
            /\ Len(iter(l)) <= MaxNodes
            /\ Len(iter_mut(l)) <= MaxNodes
            /\ \A data \in Data : contains(l, data) # Diverges

(***************************************************************************)
(*                       Properties of LinkedHashMap                       *)
(***************************************************************************)
\* The items of the bucket array bs as a set, and the keys among them.
Bindings(bs) == {drain_all(bs)[i] : i \in 1..Len(drain_all(bs))}
Stored == {e[1] : e \in Bindings(buckets)}

\* The step is the call op with key k.
MapCalled(op, k) == mlast'.op = op /\ mlast'.key = k

\* C2: get(k) is the value of the most recent insert(k, _) not since
\* removed and absent for every other key, and contains_key(k) is true
\* exactly when get(k) is present.
C2_GetIsLatestInsert ==
    \A k \in Keys :
        /\ get(k) = mmodel[k]
        /\ contains_key(k) = Bool(get(k) # None)

\* C4: for a key that is not stored, get returns None, contains_key false
\* and remove None, in every reachable state, and none of them faults.
C4_MissingKeyIsNoFault ==
    /\ [](\A k \in Keys \ Stored :
            /\ get(k) = None
            /\ contains_key(k) = Bool(FALSE))
    /\ [][\A k \in Keys \ Stored :
            MapCalled("remove", k) => mret' = None /\ ~panicked']_vars

\* C6: insert(k, v) on a present key returns the previous value and leaves
\* len() unchanged, on an absent key returns None and adds 1 to len(); in
\* both cases get(k) is then v and get of every other key is as before.
C6_InsertReplacesOrAdds ==
    [][\A k \in Keys :
        MapCalled("insert", k) =>
            /\ IF k \in Stored
               THEN mret' # None /\ mret' = mmodel[k]
                    /\ LinkedHashMap_len' = LinkedHashMap_len
               ELSE mret' = None
                    /\ LinkedHashMap_len' = LinkedHashMap_len + 1
            /\ get(k)' = mmodel'[k]
            /\ \A j \in Keys \ {k} : get(j)' = mmodel[j]]_vars

\* An insert on a present key has returned its previous value while the
\* map holds another key as well.
C6_Witness ==
    /\ mlast.op = "insert"
    /\ mret # None
    /\ entries_count >= 2

\* C7: remove(k) on a present key returns its value, takes 1 from len() and
\* leaves every other key's binding as it was; on an absent key it returns
\* None and leaves the entry counter and every binding as they were.
C7_RemoveTakesOnlyItsKey ==
    [][\A k \in Keys :
        MapCalled("remove", k) =>
            IF k \in Stored
            THEN /\ mret' = mmodel[k]
                 /\ LinkedHashMap_len' = LinkedHashMap_len - 1
                 /\ \A j \in Keys \ {k} : get(j)' = mmodel[j]
            ELSE /\ mret' = None
                 /\ entries_count' = entries_count
                 /\ Bindings(buckets)' = Bindings(buckets)]_vars

\* C8: growth keeps the contents: where an insert grows the bucket array,
\* the grown array holds the same bindings and as many entries as the array
\* before, each retrievable with its value; and after any calls every key
\* not since removed is retrievable by get with its value.
C8_GrowKeepsContents ==
    /\ [](buckets # <<>> => \A k \in Keys : get(k) = mmodel[k])
    /\ [][mlast'.grew =>
            LET g == grow(buckets)
            IN  /\ Len(buckets') = Len(g)
                /\ Bindings(g) = Bindings(buckets)
                /\ Len(drain_all(g)) = entries_count
                /\ \A k \in Keys : lookup(g, k) = mmodel[k]]_vars

\* An insert has just grown an array of two buckets holding two entries.
C8_Witness ==
    /\ mlast.grew
    /\ Len(buckets) = 4
    /\ entries_count = 2

\* Every entry of the bucket array bs is in the bucket of its key's hash
\* modulo the length of bs.
InItsBucket(bs) ==
    \A i \in 1..Len(bs) : \A j \in 1..Len(bs[i]) :
        key_to_idx(bs[i][j][1], Len(bs)) = Ok(i - 1)

\* The bucket array insert places its entry in: the grown one if it grew.
Placing == IF mlast'.grew THEN grow(buckets) ELSE buckets

\* C21: in every state reached by insert and remove calls every stored
\* entry is in the bucket whose index is hash(key) mod the bucket count, and
\* so it is in the array a growth has just built.
C21_EntriesAreInTheirBucket ==
    /\ []InItsBucket(buckets)
    /\ [][mlast'.grew => InItsBucket(grow(buckets))]_vars

\* A growth to four buckets has just spread two entries over two buckets.
C21_Witness ==
    /\ mlast.grew
    /\ Len(buckets) = 4
    /\ Cardinality({i \in 1..4 : buckets[i] # <<>>}) = 2

\* C22: in every state reached by insert and remove calls no key is in more
\* than one entry over all the buckets, and none is in the array a growth
\* has just built.
C22_NoDuplicateKeys ==
    /\ [](Len(drain_all(buckets)) = Cardinality(Stored))
    /\ [][mlast'.grew =>
            Len(drain_all(grow(buckets))) = Cardinality(Stored)]_vars

\* A key that was removed is stored again, next to another key.
C22_Witness ==
    /\ mlast.op = "insert"
    /\ mret = None
    /\ Len(buckets) = 4
    /\ Cardinality(Stored) = 2

\* C23: in every state reached by insert and remove calls entries_count,
\* which len() returns, is the number of entries over all the buckets.
C23_CountIsNumberOfEntries ==
    /\ entries_count = Len(drain_all(buckets))
    /\ LinkedHashMap_len = entries_count
    /\ LinkedHashMap_is_empty <=> drain_all(buckets) = <<>>

\* A remove has just taken one of two entries.
C23_Witness ==
    /\ mlast.op = "remove"
    /\ mret # None /\ mret # Panic
    /\ entries_count = 1

\* C24: the bucket count is 0 in a new map and 1 after the first insert;
\* only insert changes it, it never decreases, every change is 0 to 1 or n
\* to 2n, and from 1 on it is never 0 again.
C24_CapacityStateMachine ==
    /\ Len(buckets) = 0
    /\ [][LET n == Len(buckets)
               m == Len(buckets')
           IN  /\ m # n => mlast'.op = "insert"
               /\ m # n => (n = 0 /\ m = 1) \/ (n >= 1 /\ m = 2 * n)
               /\ mlast'.op = "insert" /\ n = 0 => m = 1
               /\ mlast'.op = "remove" => m = n
               /\ m >= n
               /\ n >= 1 => m >= 1]_vars

\* A remove on a map that grew to two buckets left it at two buckets.
C24_Witness ==
    /\ mlast.op = "remove"
    /\ Len(buckets) = 2
    /\ mret # Panic

\* C25: insert grows the array before placing the entry exactly when the
\* array is empty or entries / bucket count exceeds 3/4, the key being
\* present or not; and for every bucket count n >= 1 and entry count e the
\* truncating test e > 3 * n / 4 of the code is true exactly when
\* e / n > 3 / 4 as an exact ratio, that is when 4 * e > 3 * n.
C25_GrowsAboveThreeQuarters ==
    /\ [](test_grows # Unit => test_grows = Bool(4 * test_e > 3 * test_n))
    /\ [][\A k \in Keys :
            MapCalled("insert", k) /\ test_grows' = test_grows =>
                /\ mlast'.grew <=>
                       (Len(buckets) = 0 \/ 4 * entries_count > 3 * Len(buckets))
                /\ mlast'.grew <=> Len(buckets') # Len(buckets)
                /\ mlast'.grew <=> Len(buckets') = target_size(buckets)]_vars

\* The test has been applied to 3 entries in 3 buckets, where 3 * n / 4
\* truncates, and an insert of a key that was present has just grown the
\* array.
C25_Witness ==
    /\ test_n = 3 /\ test_e = 3 /\ test_grows = Bool(TRUE)
    /\ mlast.op = "insert" /\ mlast.grew
    /\ mret # None

\* C27: in every state reached by insert and remove calls with n >= 1
\* buckets, entries_count <= floor(3n/4) + 1, and when insert places its
\* entry, after growing or not, entries_count <= floor(3n/4) for the array
\* it places it in.
C27_OneDoublingSuffices ==
    /\ [](Len(buckets) >= 1 =>
            entries_count <= (3 * Len(buckets)) \div 4 + 1)
    /\ [][mlast'.op = "insert" =>
            /\ Len(Placing) >= 1
            /\ entries_count <= (3 * Len(Placing)) \div 4]_vars

\* An insert has just grown the array for an entry that the smaller one
\* could not take, and the counter is at its limit for the new array.
C27_Witness ==
    /\ mlast.grew
    /\ mret = None
    /\ Len(buckets) = 2
    /\ entries_count = (3 * Len(buckets)) \div 4 + 1

====
